---- MODULE Spec2Model ----
(***************************************************************************)
(* A model of dsmr_parser/parsers.py: TelegramParser (parse and            *)
(* validate_checksum), DSMRObjectParser._parse with its CosemParser and    *)
(* MBusParser variants, and ValueParser.parse.                             *)
(*                                                                         *)
(* A Python str is a sequence of one-character strings.  Python's None     *)
(* and the results of the coercion functions are tagged records (PyNone,   *)
(* PyStr, PyInt) so that values of different Python types can be compared. *)
(***************************************************************************)
EXTENDS Integers, Sequences, FiniteSets, TLC

VARIABLES
    telegram_specification,     \* TelegramParser.telegram_specification: a sequence of entries
    enable_checksum_validation, \* TelegramParser.enable_checksum_validation
    value_formats,              \* DSMRObjectParser.value_formats of the decoder under test
    data,                       \* the argument of the call in progress (telegram_data / telegram / line)
    pc,                         \* position of the call in progress
    idx,                        \* number of specification entries the loop of parse has processed
    telegram,                   \* the dict parse accumulates: a sequence of [key, object] in insertion order
    outcome,                    \* how the call ended: a return value or the exception that escaped
    checksum_run,               \* what validate_checksum did in this call (NoRun when it was not called)
    searched,                   \* the indices of the specification entries re.search was run for, in order
    parser_calls,               \* every [entry, line] handed to an object decoder, in order
    coerce_calls                \* every argument handed to a coercion function, in order

vars == <<telegram_specification, enable_checksum_validation, value_formats, data,
          pc, idx, telegram, outcome, checksum_run, searched, parser_calls, coerce_calls>>

(***************************************************************************)
(* Bounds of the model.                                                    *)
(***************************************************************************)
MaxTextLen == 7
MaxLineLen == 5
MaxFormats == 2
MaxSpecLen == 2
MaxLines == 2

(***************************************************************************)
(* Characters.                                                             *)
(***************************************************************************)
Digits == <<"0", "1", "2", "3", "4", "5", "6", "7", "8", "9">>
Upper == <<"A", "B", "C", "D", "E", "F", "G", "H", "I", "J", "K", "L", "M",
           "N", "O", "P", "Q", "R", "S", "T", "U", "V", "W", "X", "Y", "Z">>
Lower == <<"a", "b", "c", "d", "e", "f", "g", "h", "i", "j", "k", "l", "m",
           "n", "o", "p", "q", "r", "s", "t", "u", "v", "w", "x", "y", "z">>

Range(s) == {s[i] : i \in 1..Len(s)}

IndexOf(s, c) == CHOOSE i \in 1..Len(s) : s[i] = c

Punctuation == <<"\n", "\r", " ", "!", "(", ")", "*", "-", ".", "/", ":">>
PunctuationCodes == <<10, 13, 32, 33, 40, 41, 42, 45, 46, 47, 58>>

Chars == Range(Digits) \cup Range(Upper) \cup Range(Lower) \cup Range(Punctuation)

\* ord(c) for the characters a telegram is made of
OrdTable ==
    [c \in Chars |->
        IF c \in Range(Digits) THEN 47 + IndexOf(Digits, c)
        ELSE IF c \in Range(Upper) THEN 64 + IndexOf(Upper, c)
        ELSE IF c \in Range(Lower) THEN 96 + IndexOf(Lower, c)
        ELSE PunctuationCodes[IndexOf(Punctuation, c)]]

Ord(c) == OrdTable[c]

\* all strings over alphabet of length at most n
StringsUpTo(alphabet, n) == UNION {[1..k -> alphabet] : k \in 0..n}

(***************************************************************************)
(* Python values.                                                          *)
(***************************************************************************)
PyNone == [type |-> "None", s |-> <<>>, n |-> 0]
PyStr(s) == [type |-> "str", s |-> s, n |-> 0]
PyInt(n) == [type |-> "int", s |-> <<>>, n |-> n]

(***************************************************************************)
(* PyCRC.CRC16, as TelegramParser.validate_checksum uses it: the table     *)
(* driven CRC16 with constant 0xA001 and initial value 0.                  *)
(***************************************************************************)
RECURSIVE Xor(_, _)
Xor(a, b) ==
    IF a = 0 THEN b
    ELSE IF b = 0 THEN a
    ELSE (((a % 2) + (b % 2)) % 2) + 2 * Xor(a \div 2, b \div 2)

crc16_constant == 40961

RECURSIVE Crc16Shift(_, _)
Crc16Shift(crc, j) ==
    IF j = 0 THEN crc
    ELSE Crc16Shift(IF crc % 2 = 1 THEN Xor(crc \div 2, crc16_constant)
                                   ELSE crc \div 2,
                    j - 1)

crc16_tab == [i \in 0..255 |-> Crc16Shift(i, 8)]

\* a ^ b for bytes, tabulated
XorByte == [a \in 0..255 |-> [b \in 0..255 |-> Xor(a, b)]]

\* one round of the loop of calculate: the character d (d < 256) folded into
\* crcValue (crcValue < 65536):
\*     tmp = crcValue ^ d; rotated = crcValue >> 8
\*     crcValue = rotated ^ crc16_tab[tmp & 0x00ff]
\* rotated is a byte, so the xor leaves the table entry's high byte as it is
Crc16Step(crcValue, d) ==
    LET tmp_low == XorByte[crcValue % 256][d]
        rotated == crcValue \div 256
        entry == crc16_tab[tmp_low]
    IN  ((entry \div 256) * 256) + XorByte[rotated][entry % 256]

\* the loop of calculate over s[lo..hi], in order (halved, and the left half
\* evaluated before the right one starts, to keep the evaluation shallow)
RECURSIVE Crc16Fold(_, _, _, _)
Crc16Fold(s, lo, hi, crcValue) ==
    IF lo > hi THEN crcValue
    ELSE IF lo = hi THEN Crc16Step(crcValue, Ord(s[lo]))
    ELSE LET mid == (lo + hi) \div 2
             left == Crc16Fold(s, lo, mid, crcValue)
         IN  IF left >= 0 THEN Crc16Fold(s, mid + 1, hi, left) ELSE left

CRC16_calculate(s) == Crc16Fold(s, 1, Len(s), 0)

(***************************************************************************)
(* int(s, base=16) and the formatting '%04X' a meter writes the checksum   *)
(* with.                                                                   *)
(***************************************************************************)
HexDigits == <<"0", "1", "2", "3", "4", "5", "6", "7", "8", "9",
               "A", "B", "C", "D", "E", "F">>

IsHexDigit(c) == c \in Range(HexDigits) \/ c \in {"a", "b", "c", "d", "e", "f"}

HexDigitValue(c) ==
    IF c \in Range(HexDigits) THEN IndexOf(HexDigits, c) - 1
    ELSE 9 + IndexOf(<<"a", "b", "c", "d", "e", "f">>, c)

RECURSIVE HexFold(_, _, _)
HexFold(s, i, acc) ==
    IF i > Len(s) THEN acc
    ELSE HexFold(s, i + 1, (16 * acc) + HexDigitValue(s[i]))

\* the digits int(s, 16) reads: an optional 0x / 0X prefix is skipped
HexBody(s) ==
    IF Len(s) >= 2 /\ s[1] = "0" /\ s[2] \in {"x", "X"}
    THEN SubSeq(s, 3, Len(s))
    ELSE s

\* int(s, 16) raises ValueError unless s is a hexadecimal literal
IntBase16Fails(s) ==
    \/ HexBody(s) = <<>>
    \/ \E i \in 1..Len(HexBody(s)) : ~IsHexDigit(HexBody(s)[i])

IntBase16(s) == HexFold(HexBody(s), 1, 0)

Hex4(n) ==
    << HexDigits[((n \div 4096) % 16) + 1], HexDigits[((n \div 256) % 16) + 1],
       HexDigits[((n \div 16) % 16) + 1], HexDigits[(n % 16) + 1] >>

(***************************************************************************)
(* Regular-expression searches of TelegramParser.validate_checksum.        *)
(* A search result is [found, start, stop, group]: group = match.group(0)  *)
(* = SubSeq(text, start, stop).                                            *)
(***************************************************************************)
NoMatch == [found |-> FALSE, start |-> 0, stop |-> 0, group |-> <<>>]
Match(t, p, q) == [found |-> TRUE, start |-> p, stop |-> q, group |-> SubSeq(t, p, q)]

Min(S) == CHOOSE x \in S : \A y \in S : x <= y
Max(S) == CHOOSE x \in S : \A y \in S : x >= y

\* the positions q at which r'\/.+\!' started at p can end: '.+' takes at
\* least one character (any character, under re.DOTALL), then '!'
ContentsEnds(t, p) == {q \in (p + 2)..Len(t) : t[q] = "!"}

\* re.search(r'\/.+\!', t, re.DOTALL): the leftmost start that matches, and
\* from it the longest match ('.+' is greedy)
SearchChecksumContents(t) ==
    LET starts == {p \in 1..Len(t) : t[p] = "/" /\ ContentsEnds(t, p) # {}}
    IN  IF starts = {} THEN NoMatch
        ELSE LET p == Min(starts) IN Match(t, p, Max(ContentsEnds(t, p)))

\* the character class [0-9A-Z]
ChecksumChars == Range(Digits) \cup Range(Upper)

\* the group without its lookbehind (?<=\!): 4 characters of the class anywhere
ChecksumGroupAt_NoLookbehind(t, i) ==
    /\ i >= 1
    /\ i + 3 <= Len(t)
    /\ \A k \in 0..3 : t[i + k] \in ChecksumChars

\* one iteration of the group ((?<=\!)[0-9A-Z]{4}) at position i: the
\* character before i is '!', and 4 characters of the class follow
ChecksumGroupAt(t, i) ==
    /\ i >= 2
    /\ i + 3 <= Len(t)
    /\ t[i - 1] = "!"
    /\ \A k \in 0..3 : t[i + k] \in ChecksumChars

\* re.search(r'((?<=\!)[0-9A-Z]{4})+', t): the leftmost position where the
\* group matches; the group is then repeated while it matches again where
\* the previous iteration ended
RECURSIVE ChecksumGroupRepeat(_, _)
ChecksumGroupRepeat(t, i) ==
    IF ChecksumGroupAt(t, i + 4) THEN ChecksumGroupRepeat(t, i + 4) ELSE i + 3

SearchChecksumHex(t) ==
    LET starts == {i \in 1..Len(t) : ChecksumGroupAt(t, i)}
    IN  IF starts = {} THEN NoMatch
        ELSE LET i == Min(starts) IN Match(t, i, ChecksumGroupRepeat(t, i))

(***************************************************************************)
(* TelegramParser.validate_checksum(telegram).  The result records what    *)
(* the call did: raised ("none" for a normal return), whether and on what  *)
(* CRC16().calculate and int(..., base=16) were called, and their values.  *)
(***************************************************************************)
NoRun ==
    [ran |-> FALSE, raised |-> "none", crc_called |-> FALSE, crc_input |-> <<>>,
     int_called |-> FALSE, int_input |-> <<>>, calculated_crc |-> 0, expected_crc |-> 0]

validate_checksum(t) ==
    LET checksum_contents == SearchChecksumContents(t)
        checksum_hex == SearchChecksumHex(t)
    IN  IF ~checksum_contents.found \/ ~checksum_hex.found
        THEN [NoRun EXCEPT !.ran = TRUE, !.raised = "ParseError"]
        ELSE LET calculated_crc == CRC16_calculate(checksum_contents.group)
                 called == [NoRun EXCEPT !.ran = TRUE,
                                         !.crc_called = TRUE,
                                         !.crc_input = checksum_contents.group,
                                         !.int_called = TRUE,
                                         !.int_input = checksum_hex.group,
                                         !.calculated_crc = calculated_crc]
             IN  IF IntBase16Fails(checksum_hex.group)
                 THEN [called EXCEPT !.raised = "ValueError"]
                 ELSE LET expected_crc == IntBase16(checksum_hex.group)
                      IN  [called EXCEPT !.expected_crc = expected_crc,
                                         !.raised = IF calculated_crc # expected_crc
                                                    THEN "InvalidChecksumError"
                                                    ELSE "none"]

(***************************************************************************)
(* Outcome of a call.                                                      *)
(***************************************************************************)
\* kind is "pending", "return" or the class of the exception that escaped; stage
\* names the statement that raised it
Pending == [kind |-> "pending", value |-> <<>>, stage |-> "none"]
Returned(v) == [kind |-> "return", value |-> v, stage |-> "return"]
Raised(e, stage) == [kind |-> e, value |-> <<>>, stage |-> stage]

(***************************************************************************)
(* SpecChecksum: validate_checksum applied to every text of a bounded set. *)
(***************************************************************************)
TextAlphabet == {"/", "!", "0", "A", "G"}

\* telegrams '/' body '!' with the checksum a meter would write, alone or
\* followed by a line ending or by a further '!'
SealedTelegrams ==
    {(<<"/">> \o m \o <<"!">>) \o Hex4(CRC16_calculate(<<"/">> \o m \o <<"!">>)) \o tail :
        m \in StringsUpTo({"0", "G"}, MaxTextLen \div 3),
        tail \in {<<>>, <<"\r", "\n">>, <<"!">>}}

ChecksumTexts == StringsUpTo(TextAlphabet, MaxTextLen) \cup SealedTelegrams

InitChecksum ==
    /\ telegram_specification = <<>>
    /\ enable_checksum_validation = TRUE
    /\ value_formats = <<>>
    /\ data \in ChecksumTexts
    /\ pc = "ready"
    /\ idx = 0
    /\ telegram = <<>>
    /\ outcome = Pending
    /\ checksum_run = NoRun
    /\ searched = <<>>
    /\ parser_calls = <<>>
    /\ coerce_calls = <<>>

Call_validate_checksum ==
    /\ pc = "ready"
    /\ checksum_run' = validate_checksum(data)
    /\ outcome' = IF checksum_run'.raised = "none" THEN Returned(<<>>)
                  ELSE Raised(checksum_run'.raised, "checksum")
    /\ pc' = "done"
    /\ UNCHANGED <<telegram_specification, enable_checksum_validation, value_formats,
                   data, idx, telegram, searched, parser_calls, coerce_calls>>

NextChecksum == Call_validate_checksum

SpecChecksum == InitChecksum /\ [][NextChecksum]_vars

(***************************************************************************)
(* Coercion functions a ValueParser is configured with: str and int.       *)
(***************************************************************************)
CoerceTypes == {"str", "int"}

RECURSIVE DecFold(_, _, _)
DecFold(s, i, acc) ==
    IF i > Len(s) THEN acc
    ELSE DecFold(s, i + 1, (10 * acc) + (IndexOf(Digits, s[i]) - 1))

\* coerce_type(s) raises ValueError: str never does, int does unless s is a
\* decimal literal
CoerceFails(coerce_type, s) ==
    /\ coerce_type = "int"
    /\ \/ s = <<>>
       \/ \E i \in 1..Len(s) : s[i] \notin Range(Digits)

Coerce(coerce_type, s) ==
    IF coerce_type = "int" THEN PyInt(DecFold(s, 1, 0)) ELSE PyStr(s)

(***************************************************************************)
(* ValueParser.parse(value): value is PyNone or PyStr(token).  The result  *)
(* is [raised, stage, group, coerced]: group = the returned dict,          *)
(* coerced = the arguments coerce_type was called with, stage = the        *)
(* statement that raised.                                                  *)
(***************************************************************************)
\* s.split(c): the pieces of s between the occurrences of c
RECURSIVE SplitFrom(_, _, _, _)
SplitFrom(s, c, i, piece) ==
    IF i > Len(s) THEN <<piece>>
    ELSE IF s[i] = c THEN <<piece>> \o SplitFrom(s, c, i + 1, <<>>)
    ELSE SplitFrom(s, c, i + 1, Append(piece, s[i]))

Split(s, c) == SplitFrom(s, c, 1, <<>>)

NoGroup == [value |-> PyNone, unit |-> PyNone]

\* ValueParser.parse without the test "if value is not None" of line 197: None
\* is coerced too (str(None) is 'None', int(None) raises TypeError)
ValueParser_parse_CoercesNone(coerce_type, value) ==
    LET has_unit == value.type = "str" /\ value.s # <<>> /\ "*" \in Range(value.s)
        parts == IF has_unit THEN Split(value.s, "*") ELSE <<>>
    IN  IF has_unit /\ Len(parts) # 2
        THEN [raised |-> "ValueError", stage |-> "split", group |-> NoGroup, coerced |-> <<>>]
        ELSE LET raw == IF has_unit THEN PyStr(parts[1]) ELSE value
                 unit_of_measurement == IF has_unit THEN PyStr(parts[2]) ELSE PyNone
             IN  IF raw.type = "None"
                 THEN IF coerce_type = "int"
                      THEN [raised |-> "TypeError", stage |-> "coerce", group |-> NoGroup,
                            coerced |-> <<raw>>]
                      ELSE [raised |-> "none", stage |-> "return",
                            group |-> [value |-> PyStr(<<"N", "o", "n", "e">>),
                                       unit |-> unit_of_measurement],
                            coerced |-> <<raw>>]
                 ELSE IF CoerceFails(coerce_type, raw.s)
                 THEN [raised |-> "ValueError", stage |-> "coerce", group |-> NoGroup,
                       coerced |-> <<raw>>]
                 ELSE [raised |-> "none", stage |-> "return",
                       group |-> [value |-> Coerce(coerce_type, raw.s),
                                  unit |-> unit_of_measurement],
                       coerced |-> <<raw>>]

ValueParser_parse(coerce_type, value) ==
    LET has_unit == value.type = "str" /\ value.s # <<>> /\ "*" \in Range(value.s)
        parts == IF has_unit THEN Split(value.s, "*") ELSE <<>>
    IN  IF has_unit /\ Len(parts) # 2
        THEN \* value, unit_of_measurement = value.split('*') cannot unpack
             [raised |-> "ValueError", stage |-> "split", group |-> NoGroup, coerced |-> <<>>]
        ELSE LET raw == IF has_unit THEN PyStr(parts[1]) ELSE value
                 unit_of_measurement == IF has_unit THEN PyStr(parts[2]) ELSE PyNone
             IN  IF raw.type = "None"
                 THEN [raised |-> "none", stage |-> "return",
                       group |-> [value |-> PyNone, unit |-> unit_of_measurement],
                       coerced |-> <<>>]
                 ELSE IF CoerceFails(coerce_type, raw.s)
                 THEN [raised |-> "ValueError", stage |-> "coerce", group |-> NoGroup,
                       coerced |-> <<raw>>]
                 ELSE [raised |-> "none", stage |-> "return",
                       group |-> [value |-> Coerce(coerce_type, raw.s),
                                  unit |-> unit_of_measurement],
                       coerced |-> <<raw>>]

(***************************************************************************)
(* DSMRObjectParser._parse(line).                                          *)
(***************************************************************************)
\* the character class [0-9a-zA-Z\.\*]
ValueChars == Range(Digits) \cup Range(Lower) \cup Range(Upper) \cup {".", "*"}

\* the end of the longest run of class characters that starts at p
RECURSIVE RunEnd(_, _)
RunEnd(line, p) ==
    IF p <= Len(line) /\ line[p] \in ValueChars THEN RunEnd(line, p + 1) ELSE p - 1

\* the pattern ((?<=\()[0-9a-zA-Z\.\*]{0,}(?=\)))+ matches at p when the
\* character before p is '(' and the run of class characters from p is
\* followed by ')'
ValueGroupAt(line, p) ==
    /\ p >= 2
    /\ line[p - 1] = "("
    /\ RunEnd(line, p) + 1 <= Len(line)
    /\ line[RunEnd(line, p) + 1] = ")"

\* re.findall(pattern, line): the matches from left to right, the search
\* resuming where the previous match ended (one further on after an empty
\* match)
RECURSIVE FindAllFrom(_, _)
FindAllFrom(line, p) ==
    IF p > Len(line) + 1 THEN <<>>
    ELSE IF ValueGroupAt(line, p)
    THEN LET e == RunEnd(line, p)
         IN  <<SubSeq(line, p, e)>> \o FindAllFrom(line, IF e < p THEN p + 1 ELSE e + 1)
    ELSE FindAllFrom(line, p + 1)

FindAllValues(line) == FindAllFrom(line, 1)

\* values = [None if value == '' else value for value in values]
NoneIfEmpty(values) ==
    [i \in 1..Len(values) |-> IF values[i] = <<>> THEN PyNone ELSE PyStr(values[i])]

\* [self.value_formats[i].parse(value) for i, value in enumerate(values)]:
\* the values are parsed in order and the first exception ends the loop
RECURSIVE ParseValues(_, _, _, _)
ParseValues(formats, values, i, acc) ==
    IF i > Len(values) THEN acc
    ELSE LET r == ValueParser_parse(formats[i], values[i])
         IN  IF r.raised # "none"
             THEN [acc EXCEPT !.raised = r.raised, !.stage = r.stage, !.groups = <<>>,
                              !.coerced = acc.coerced \o r.coerced]
             ELSE ParseValues(formats, values, i + 1,
                              [acc EXCEPT !.groups = Append(acc.groups, r.group),
                                          !.coerced = acc.coerced \o r.coerced])

\* the test of line 102 without its "not values"
InvalidLine_CountOnly(formats, values) == Len(values) # Len(formats)

\* the test of line 102 that raises ParseError
InvalidLine(formats, values) == values = <<>> \/ Len(values) # Len(formats)

DSMRObjectParser_parse(formats, line) ==
    LET values == NoneIfEmpty(FindAllValues(line))
        start == [raised |-> "none", stage |-> "return", groups |-> <<>>,
                  coerced |-> <<>>, values |-> values]
    IN  IF InvalidLine(formats, values)
        THEN [start EXCEPT !.raised = "ParseError", !.stage = "count"]
        ELSE ParseValues(formats, values, 1, start)

(***************************************************************************)
(* SpecObject: _parse of a decoder with every list of at most MaxFormats   *)
(* value formats, applied to every line of a bounded set.                  *)
(***************************************************************************)
LineAlphabet == {"(", ")", "*", "1", "k"}

ObjectLines == StringsUpTo(LineAlphabet, MaxLineLen)

FormatLists == StringsUpTo(CoerceTypes, MaxFormats)

InitObject ==
    /\ telegram_specification = <<>>
    /\ enable_checksum_validation = FALSE
    /\ value_formats \in FormatLists
    /\ data \in ObjectLines
    /\ pc = "ready"
    /\ idx = 0
    /\ telegram = <<>>
    /\ outcome = Pending
    /\ checksum_run = NoRun
    /\ searched = <<>>
    /\ parser_calls = <<>>
    /\ coerce_calls = <<>>

Call_parse_line ==
    /\ pc = "ready"
    /\ LET r == DSMRObjectParser_parse(value_formats, data)
       IN  /\ outcome' = IF r.raised = "none" THEN Returned(r.groups)
                         ELSE Raised(r.raised, r.stage)
           /\ coerce_calls' = r.coerced
    /\ pc' = "done"
    /\ UNCHANGED <<telegram_specification, enable_checksum_validation, value_formats,
                   data, idx, telegram, checksum_run, searched, parser_calls>>

NextObject == Call_parse_line

SpecObject == InitObject /\ [][NextObject]_vars

(***************************************************************************)
(* CosemParser.parse and MBusParser.parse.  An object decoder is           *)
(* [variant, value_formats]; its result is [raised, stage, object,         *)
(* coerced].                                                               *)
(***************************************************************************)
NoObject == [type |-> "none", values |-> <<>>]

CosemParser_parse(formats, line) ==
    LET r == DSMRObjectParser_parse(formats, line)
    IN  [raised |-> r.raised, stage |-> r.stage, coerced |-> r.coerced,
         object |-> IF r.raised = "none"
                    THEN [type |-> "CosemObject", values |-> r.groups]
                    ELSE NoObject]

MBusParser_parse(formats, line) ==
    LET r == DSMRObjectParser_parse(formats, line)
    IN  [raised |-> r.raised, stage |-> r.stage, coerced |-> r.coerced,
         object |-> IF r.raised # "none" THEN NoObject
                    ELSE IF Len(r.groups) = 2
                    THEN [type |-> "MBusObject", values |-> r.groups]
                    ELSE [type |-> "MBusObjectV2_2", values |-> r.groups]]

\* parser.parse(line), dispatched on the class of the decoder
Parser_parse(parser, line) ==
    IF parser.variant = "MBus" THEN MBusParser_parse(parser.value_formats, line)
    ELSE CosemParser_parse(parser.value_formats, line)

(***************************************************************************)
(* Signatures.  A signature is a regular expression; the model has the two *)
(* shapes [literal, to_eol]: the escaped OBIS identifier alone             *)
(* (r'0-0:96\.1\.1'), and the identifier followed by '.+?\r\n'.            *)
(***************************************************************************)
LiteralAt(t, p, lit) ==
    /\ p + Len(lit) - 1 <= Len(t)
    /\ SubSeq(t, p, p + Len(lit) - 1) = lit

\* the positions q of the '\n' of a '\r\n' that '.+?\r\n' can end at, when
\* the literal ended at e: '.+?' takes at least one character (any, under
\* re.DOTALL)
LineEnds(t, e) == {q \in (e + 3)..Len(t) : t[q - 1] = "\r" /\ t[q] = "\n"}

\* re.search(signature, telegram_data, re.DOTALL): the leftmost start that
\* matches, and from it the shortest match ('.+?' is lazy)
SearchSignature(signature, t) ==
    LET lit == signature.literal
        starts == {p \in 1..Len(t) :
                      /\ LiteralAt(t, p, lit)
                      /\ signature.to_eol => LineEnds(t, p + Len(lit) - 1) # {}}
    IN  IF starts = {} THEN NoMatch
        ELSE LET p == Min(starts)
                 e == p + Len(lit) - 1
             IN  Match(t, p, IF signature.to_eol THEN Min(LineEnds(t, e)) ELSE e)

(***************************************************************************)
(* TelegramParser.parse(telegram_data), statement by statement.            *)
(***************************************************************************)
\* the call: parse(telegram_data) is entered
parse_begin(telegram_data) ==
    /\ pc = "idle"
    /\ data' = telegram_data
    /\ pc' = "validate"
    /\ UNCHANGED <<telegram_specification, enable_checksum_validation, value_formats,
                   idx, telegram, outcome, checksum_run, searched, parser_calls,
                   coerce_calls>>

\* lines 42-43 with the exception of validate_checksum caught and dropped
parse_validate_Swallowed ==
    /\ pc = "validate"
    /\ checksum_run' = IF enable_checksum_validation THEN validate_checksum(data)
                       ELSE checksum_run
    /\ pc' = "loop"
    /\ UNCHANGED <<telegram_specification, enable_checksum_validation, value_formats,
                   data, idx, telegram, outcome, searched, parser_calls, coerce_calls>>

\* lines 42-43: if self.enable_checksum_validation: self.validate_checksum(...)
parse_validate ==
    /\ pc = "validate"
    /\ IF enable_checksum_validation
       THEN LET run == validate_checksum(data)
            IN  /\ checksum_run' = run
                /\ IF run.raised # "none"
                   THEN /\ outcome' = Raised(run.raised, "checksum")
                        /\ pc' = "done"
                   ELSE /\ outcome' = outcome
                        /\ pc' = "loop"
       ELSE /\ checksum_run' = checksum_run
            /\ outcome' = outcome
            /\ pc' = "loop"
    /\ UNCHANGED <<telegram_specification, enable_checksum_validation, value_formats,
                   data, idx, telegram, searched, parser_calls, coerce_calls>>

\* lines 47-51 with a signature that is not found raising ParseError
parse_entry_UnmatchedRaises ==
    /\ pc = "loop"
    /\ idx < Len(telegram_specification)
    /\ LET entry == telegram_specification[idx + 1]
           match == SearchSignature(entry.signature, data)
       IN  /\ searched' = Append(searched, idx + 1)
           /\ idx' = idx + 1
           /\ IF match.found
              THEN LET r == Parser_parse(entry.parser, match.group)
                   IN  /\ parser_calls' = Append(parser_calls,
                                                 [entry |-> idx + 1, line |-> match.group])
                       /\ coerce_calls' = coerce_calls \o r.coerced
                       /\ IF r.raised # "none"
                          THEN /\ outcome' = Raised(r.raised, r.stage)
                               /\ pc' = "done"
                               /\ telegram' = telegram
                          ELSE /\ telegram' = Append(telegram,
                                                     [key |-> entry.signature,
                                                      object |-> r.object])
                               /\ outcome' = outcome
                               /\ pc' = pc
              ELSE /\ outcome' = Raised("ParseError", "search")
                   /\ pc' = "done"
                   /\ UNCHANGED <<parser_calls, coerce_calls, telegram>>
    /\ UNCHANGED <<telegram_specification, enable_checksum_validation, value_formats,
                   data, checksum_run>>

\* lines 47-51: one iteration of the loop over telegram_specification.items()
parse_entry ==
    /\ pc = "loop"
    /\ idx < Len(telegram_specification)
    /\ LET entry == telegram_specification[idx + 1]
           match == SearchSignature(entry.signature, data)
       IN  /\ searched' = Append(searched, idx + 1)
           /\ idx' = idx + 1
           /\ IF match.found
              THEN LET r == Parser_parse(entry.parser, match.group)
                   IN  /\ parser_calls' = Append(parser_calls,
                                                 [entry |-> idx + 1, line |-> match.group])
                       /\ coerce_calls' = coerce_calls \o r.coerced
                       /\ IF r.raised # "none"
                          THEN /\ outcome' = Raised(r.raised, r.stage)
                               /\ pc' = "done"
                               /\ telegram' = telegram
                          ELSE /\ telegram' = Append(telegram,
                                                     [key |-> entry.signature,
                                                      object |-> r.object])
                               /\ outcome' = outcome
                               /\ pc' = pc
              ELSE UNCHANGED <<parser_calls, coerce_calls, telegram, outcome, pc>>
    /\ UNCHANGED <<telegram_specification, enable_checksum_validation, value_formats,
                   data, checksum_run>>

\* line 53: return telegram
parse_return ==
    /\ pc = "loop"
    /\ idx = Len(telegram_specification)
    /\ outcome' = Returned(telegram)
    /\ pc' = "done"
    /\ UNCHANGED <<telegram_specification, enable_checksum_validation, value_formats,
                   data, idx, telegram, checksum_run, searched, parser_calls,
                   coerce_calls>>

(***************************************************************************)
(* Spec: a TelegramParser built with every specification of a bounded set  *)
(* and either value of the flag, and parse called on every telegram of a   *)
(* bounded set.                                                            *)
(***************************************************************************)
CRLF == <<"\r", "\n">>

EquipmentId == <<"0", "-", "0", ":", "9", "6", ".", "1", ".", "1">>
GasId == <<"0", "-", "1", ":", "2", "4", ".", "3", ".", "0">>

EquipmentValue ==
    <<"4", "B", "3", "8", "4", "5", "4", "7", "3", "0", "3", "0", "3", "4", "3", "0",
      "3", "4", "3", "6", "3", "3", "3", "1", "3", "9", "3", "5", "3", "0", "3", "7">>

EquipmentLine == EquipmentId \o <<"(">> \o EquipmentValue \o <<")">> \o CRLF
EmptyLine == EquipmentId \o <<"(", ")">> \o CRLF
EnergyLine == GasId \o <<"(", "1", "2", "*", "k", "W", "h", ")">> \o CRLF
GasLine == GasId \o <<"(", "1", ")", "(", "2", "*", "m", "3", ")">> \o CRLF
TwoStarLine == GasId \o <<"(", "1", "*", "k", "*", "W", ")">> \o CRLF

LinePool == {EquipmentLine, EmptyLine, EnergyLine, GasLine, TwoStarLine}

RECURSIVE Concat(_)
Concat(ss) == IF ss = <<>> THEN <<>> ELSE Head(ss) \o Concat(Tail(ss))

\* the identification line a telegram starts with
Header == <<"/", "X", "5", "\r", "\n">>

TelegramBodies == {Header \o Concat(ls) : ls \in StringsUpTo(LinePool, MaxLines)}

\* the checksum a meter writes after the '!' that ends body
Seal(body) == Hex4(CRC16_calculate(body \o <<"!">>))

\* the 4 digits of a checksum that is not body's
WrongSeal(body) == Hex4((CRC16_calculate(body \o <<"!">>) + 1) % 65536)

\* telegrams with their checksum, telegrams with a checksum that is not
\* theirs, and telegrams cut before their '!'
SealedBodies == {b \o <<"!">> \o Seal(b) \o CRLF : b \in TelegramBodies}
CorruptBodies == {b \o <<"!">> \o WrongSeal(b) \o CRLF : b \in TelegramBodies}
CutBodies == TelegramBodies

Telegrams == SealedBodies \cup CorruptBodies \cup CutBodies

BareEquipment == [literal |-> EquipmentId, to_eol |-> FALSE]
EquipmentSig == [literal |-> EquipmentId, to_eol |-> TRUE]
GasSig == [literal |-> GasId, to_eol |-> TRUE]

Cosem(formats) == [variant |-> "Cosem", value_formats |-> formats]
MBus(formats) == [variant |-> "MBus", value_formats |-> formats]

EntryPool ==
    {[signature |-> BareEquipment, parser |-> Cosem(<<"str">>)],
     [signature |-> EquipmentSig, parser |-> Cosem(<<"str">>)],
     [signature |-> EquipmentSig, parser |-> Cosem(<<"int">>)],
     [signature |-> GasSig, parser |-> Cosem(<<"int">>)],
     [signature |-> GasSig, parser |-> MBus(<<"str", "int">>)]}

\* a dict has each key once
Specifications ==
    {sp \in StringsUpTo(EntryPool, MaxSpecLen) :
        \A i, j \in 1..Len(sp) : i # j => sp[i].signature # sp[j].signature}

Init ==
    /\ telegram_specification \in Specifications
    /\ enable_checksum_validation \in BOOLEAN
    /\ value_formats = <<>>
    /\ data = <<>>
    /\ pc = "idle"
    /\ idx = 0
    /\ telegram = <<>>
    /\ outcome = Pending
    /\ checksum_run = NoRun
    /\ searched = <<>>
    /\ parser_calls = <<>>
    /\ coerce_calls = <<>>

Next ==
    \/ pc = "idle" /\ \E telegram_data \in Telegrams : parse_begin(telegram_data)
    \/ parse_validate
    \/ parse_entry
    \/ parse_return

Spec == Init /\ [][Next]_vars

(***************************************************************************)
(* Properties of validate_checksum, checked under SpecChecksum.            *)
(***************************************************************************)
Positions(t, c) == {i \in 1..Len(t) : t[i] = c}

\* the substring from the first '/' through the first '!' after it
HasSpanToFirstBang(t) ==
    /\ Positions(t, "/") # {}
    /\ \E q \in Positions(t, "!") : q > Min(Positions(t, "/"))

SpanToFirstBang(t) ==
    LET p == Min(Positions(t, "/"))
    IN  SubSeq(t, p, Min({q \in Positions(t, "!") : q > p}))

\* C3: whenever validate_checksum computes the CRC16, it computes it over the
\* substring from the first '/' of the text through the first '!' that
\* follows it, also in a text with more than one '!'.
C3_CrcSpanEndsAtFirstBang ==
    (pc = "done" /\ checksum_run.crc_called)
        => /\ HasSpanToFirstBang(data)
           /\ checksum_run.crc_input = SpanToFirstBang(data)

\* a text is incomplete when it has no '!', or no '/' before a '!', or no '!'
\* that 4 checksum characters (characters of [0-9A-Z]) follow
NoBang(t) == Positions(t, "!") = {}

NoSlashBeforeBang(t) ==
    ~\E p \in Positions(t, "/") : \E q \in Positions(t, "!") : p < q

FourChecksumCharsAfter(t, q) ==
    /\ q + 4 <= Len(t)
    /\ \A k \in 1..4 : t[q + k] \in Range(Digits) \cup Range(Upper)

NoChecksumAfterBang(t) ==
    \A q \in Positions(t, "!") : ~FourChecksumCharsAfter(t, q)

Incomplete(t) == NoBang(t) \/ NoSlashBeforeBang(t) \/ NoChecksumAfterBang(t)

\* C4: for a text with no '!' (likewise with no '/' before a '!', or with
\* fewer than 4 checksum characters after '!') validate_checksum raises
\* ParseError, never InvalidChecksumError, and neither computes the CRC nor
\* parses or compares a checksum.
C4_IncompleteRaisesParseError ==
    (pc = "done" /\ Incomplete(data))
        => /\ outcome.kind = "ParseError"
           /\ ~checksum_run.crc_called
           /\ ~checksum_run.int_called

\* a text that starts a telegram and was cut before its '!' has been validated
C4_Witness ==
    /\ pc = "done"
    /\ NoBang(data)
    /\ Len(data) >= 2
    /\ data[1] = "/"
    /\ outcome.kind = "ParseError"

UpperHexDigits == Range(HexDigits)

\* C5: the checksum validate_checksum extracts is exactly 4 uppercase
\* hexadecimal digits, so parsing it never fails: every call ends in a normal
\* return, a ParseError or an InvalidChecksumError, and a text whose 4
\* characters after '!' are not hexadecimal digits gets a ParseError.
C5_ChecksumIsHexAndErrorsAreChecksumErrors ==
    pc = "done"
        => /\ outcome.kind \in {"return", "ParseError", "InvalidChecksumError"}
           /\ checksum_run.int_called
                => /\ Len(checksum_run.int_input) = 4
                   /\ \A k \in 1..4 : checksum_run.int_input[k] \in UpperHexDigits

(***************************************************************************)
(* Properties of DSMRObjectParser._parse and ValueParser.parse, checked    *)
(* under SpecObject.                                                       *)
(***************************************************************************)
\* the parenthesized groups of a line whose content consists only of
\* characters of [0-9a-zA-Z.*]: where their content starts and ends
GroupEnds(line, p) ==
    {e \in (p - 1)..(Len(line) - 1) :
        /\ \A k \in p..e : line[k] \in ValueChars
        /\ line[e + 1] = ")"}

GroupStarts(line) ==
    {p \in 2..Len(line) : line[p - 1] = "(" /\ GroupEnds(line, p) # {}}

RECURSIVE Ascending(_)
Ascending(S) == IF S = {} THEN <<>> ELSE <<Min(S)>> \o Ascending(S \ {Min(S)})

\* the contents of the groups, in line order
Groups(line) ==
    LET starts == Ascending(GroupStarts(line))
    IN  [i \in 1..Len(starts) |->
            SubSeq(line, starts[i], CHOOSE e \in GroupEnds(line, starts[i]) : TRUE)]

\* a token as the value formats get it: the absence marker for an empty group
Token(content) == IF content = <<>> THEN PyNone ELSE PyStr(content)

\* C6 as stated: _parse raises ParseError exactly when the number of groups
\* differs from the number N of value formats, and returns exactly N value
\* groups when the two are equal.
C6_ParseErrorExactlyOnCountMismatch ==
    pc = "done"
        => LET n == Len(Groups(data))
               N == Len(value_formats)
           IN  /\ outcome.kind = "ParseError" <=> n # N
               /\ n = N => (outcome.kind = "return" /\ Len(outcome.value) = N)

\* C6 as amended: _parse raises ParseError exactly when the line has no group
\* or the number of groups differs from N; otherwise the i-th group is
\* decoded by the i-th value format, in line order, and the result is the N
\* value groups, or the exception of the first value format that raises.
C6_ParseErrorOnNoGroupOrCountMismatch ==
    pc = "done"
        => LET groups == Groups(data)
               n == Len(groups)
               N == Len(value_formats)
               decoded == [i \in 1..IF n = N THEN n ELSE 0 |->
                              ValueParser_parse(value_formats[i], Token(groups[i]))]
               failing == {i \in DOMAIN decoded : decoded[i].raised # "none"}
           IN  /\ outcome.kind = "ParseError" <=> (n = 0 \/ n # N)
               /\ (n >= 1 /\ n = N /\ failing = {})
                    => /\ outcome.kind = "return"
                       /\ outcome.value = [i \in 1..N |-> decoded[i].group]
               /\ (n >= 1 /\ n = N /\ failing # {})
                    => /\ outcome.kind = decoded[Min(failing)].raised
                       /\ outcome.stage = decoded[Min(failing)].stage

\* two groups decoded by two value formats: an empty group and a number
C6_Witness ==
    /\ pc = "done"
    /\ Len(value_formats) = 2
    /\ Len(Groups(data)) = 2
    /\ outcome.kind = "return"
    /\ Len(outcome.value) = 2
    /\ outcome.value[1].value = PyNone
    /\ outcome.value[2].value = PyInt(1)

\* the text before the first '*' of a token, and the text after it
FirstStar(tok) == Min(Positions(tok, "*"))
BeforeFirstStar(tok) == SubSeq(tok, 1, FirstStar(tok) - 1)
AfterFirstStar(tok) == SubSeq(tok, FirstStar(tok) + 1, Len(tok))

\* C7: a token with at least one '*' is split at its first '*' only: the text
\* before it is the rawValue handed to the coercion function, the text after
\* it is the unit (a token with two '*' still yields a value group); a token
\* without '*' has no unit and is the rawValue as a whole.
C7_SplitsAtFirstStarOnly ==
    (pc = "done" /\ Len(value_formats) = 1 /\ Len(Groups(data)) = 1
                 /\ Groups(data)[1] # <<>>)
        => LET tok == Groups(data)[1]
               starred == Positions(tok, "*") # {}
               rawValue == IF starred THEN BeforeFirstStar(tok) ELSE tok
               unit == IF starred THEN PyStr(AfterFirstStar(tok)) ELSE PyNone
           IN  /\ coerce_calls = <<PyStr(rawValue)>>
               /\ outcome.kind = "return" => outcome.value[1].unit = unit
               /\ value_formats = <<"str">>
                    => /\ outcome.kind = "return"
                       /\ outcome.value = <<[value |-> PyStr(rawValue), unit |-> unit]>>

\* the number of groups that are not empty
CountNonEmpty(groups) == Cardinality({i \in 1..Len(groups) : groups[i] # <<>>})

\* C8: an empty group () decodes to {value: absent, unit: absent} whatever the
\* coercion type, the coercion function is not called for it, and no call of
\* a coercion function is ever made on the absence marker.
C8_AbsentValueIsNotCoerced ==
    /\ \A i \in 1..Len(coerce_calls) : coerce_calls[i].type = "str"
    /\ (pc = "done" /\ outcome.kind = "return")
         => /\ \A i \in 1..Len(outcome.value) :
                  Groups(data)[i] = <<>> => outcome.value[i] = NoGroup
            /\ Len(coerce_calls) = CountNonEmpty(Groups(data))

\* the line () decoded by an int value format
C8_Witness ==
    /\ pc = "done"
    /\ value_formats = <<"int">>
    /\ Groups(data) = << <<>> >>
    /\ outcome = Returned(<<NoGroup>>)
    /\ coerce_calls = <<>>

\* C10: when the coercion function fails on a present rawValue, the failure
\* leaves _parse as a ParseError (a specialization of it, or wrapped in it)
\* and as no other kind of error.
C10_CoercionFailureIsParseError ==
    (pc = "done" /\ outcome.stage = "coerce"
                 /\ coerce_calls[Len(coerce_calls)].s # <<>>)
        => outcome.kind = "ParseError"

(***************************************************************************)
(* Properties of TelegramParser.parse, checked under Spec.                 *)
(***************************************************************************)
\* the value group of the equipment identifier line
EquipmentGroup == [value |-> PyStr(EquipmentValue), unit |-> PyNone]

\* C1: with the specification {r'0-0:96\.1\.1': CosemParser(ValueParser(str))}
\* and a telegram whose first line after the header is
\* 0-0:96.1.1(4B384547303034303436333139353037), parse returns the mapping
\* from that signature to the object with the one value group
\* {value: '4B384547303034303436333139353037', unit: None}.
C1_BareSignatureDecodesItsLine ==
    (/\ pc = "done"
     /\ telegram_specification =
            <<[signature |-> BareEquipment, parser |-> Cosem(<<"str">>)]>>
     /\ LiteralAt(data, Len(Header) + 1, EquipmentLine)
     /\ checksum_run.raised = "none")
        => /\ outcome.kind = "return"
           /\ outcome.value =
                  <<[key |-> BareEquipment,
                     object |-> [type |-> "CosemObject", values |-> <<EquipmentGroup>>]]>>

\* a signature matches somewhere in a text: its literal occurs and, for a
\* signature that runs to the end of the line, a '\r\n' follows at least one
\* character later
MatchesSomewhere(signature, t) ==
    \E p \in 1..Len(t) :
        /\ LiteralAt(t, p, signature.literal)
        /\ signature.to_eol
             => \E q \in (p + Len(signature.literal) + 1)..(Len(t) - 1) :
                    t[q] = "\r" /\ t[q + 1] = "\n"

\* C2: with enable_checksum_validation, validate_checksum runs before any
\* signature is searched or any object decoder is called; when it fails, its
\* ParseError or InvalidChecksumError ends the call, no signature is searched,
\* no decoder is called and no mapping is returned.  Without the flag
\* validate_checksum is never run and a telegram with a wrong or missing
\* checksum is decoded: the only errors are those of the object decoders.
C2_ChecksumGatePrecedesDecoding ==
    /\ (enable_checksum_validation
          /\ (pc = "loop" \/ searched # <<>> \/ parser_calls # <<>>
                \/ outcome.kind = "return"))
         => (checksum_run.ran /\ checksum_run.raised = "none" /\ data \in SealedBodies)
    /\ (enable_checksum_validation /\ pc \in {"loop", "done"} /\ data \in CorruptBodies)
         => checksum_run.raised = "InvalidChecksumError"
    /\ (enable_checksum_validation /\ pc \in {"loop", "done"} /\ data \in CutBodies)
         => checksum_run.raised = "ParseError"
    /\ (checksum_run.ran /\ checksum_run.raised # "none")
         => /\ pc = "done"
            /\ outcome = Raised(checksum_run.raised, "checksum")
            /\ searched = <<>>
            /\ parser_calls = <<>>
            /\ coerce_calls = <<>>
            /\ telegram = <<>>
    /\ ~enable_checksum_validation
         => /\ ~checksum_run.ran
            /\ outcome.stage # "checksum"
            /\ outcome.kind # "InvalidChecksumError"
            /\ (pc = "done" /\ outcome.kind # "return") => parser_calls # <<>>

\* validation has failed on a telegram whose lines the specification matches
C2_Witness ==
    /\ pc = "done"
    /\ enable_checksum_validation
    /\ checksum_run.raised = "InvalidChecksumError"
    /\ telegram_specification # <<>>
    /\ \A i \in 1..Len(telegram_specification) :
           MatchesSomewhere(telegram_specification[i].signature, data)

\* the signatures of a specification that match somewhere in t, in the order
\* of the specification
RECURSIVE MatchingSignatures(_, _)
MatchingSignatures(entries, t) ==
    IF entries = <<>> THEN <<>>
    ELSE (IF MatchesSomewhere(Head(entries).signature, t)
          THEN <<Head(entries).signature>> ELSE <<>>)
         \o MatchingSignatures(Tail(entries), t)

\* C9: when parse returns, the keys of the mapping are exactly the signatures
\* of the specification that match somewhere in the text, in the order the
\* specification lists them; each entry was searched exactly once, in order;
\* and a signature that matches nothing raises nothing: an exception in the
\* loop comes from the decoder of the entry searched last.
C9_KeysAreTheMatchingSignatures ==
    /\ (pc = "done" /\ outcome.kind = "return")
         => /\ [i \in 1..Len(outcome.value) |-> outcome.value[i].key]
                  = MatchingSignatures(telegram_specification, data)
            /\ searched = [i \in 1..Len(telegram_specification) |-> i]
    /\ (pc = "done" /\ outcome.kind # "return" /\ searched # <<>>)
         => /\ parser_calls # <<>>
            /\ parser_calls[Len(parser_calls)].entry = searched[Len(searched)]
            /\ MatchesSomewhere(
                   telegram_specification[searched[Len(searched)]].signature, data)

\* parse has returned two keys in specification order although their lines
\* come in the other order in the telegram
C9_Witness ==
    /\ pc = "done"
    /\ outcome.kind = "return"
    /\ Len(outcome.value) = 2
    /\ outcome.value[1].key = GasSig
    /\ outcome.value[2].key = EquipmentSig
    /\ SearchSignature(GasSig, data).start > SearchSignature(EquipmentSig, data).start

====
